---- MODULE Spec2Model ----
(***************************************************************************)
(* A model of the COVID-19 ETL pipeline: extract_data (scripts/extract.py), *)
(* transform_data (scripts/transform.py), load_data (scripts/load.py), and  *)
(* the two orchestrations, run_pipeline (main.py) and the Airflow DAG       *)
(* (dags/covid_pipeline_dag.py).                                            *)
(*                                                                          *)
(* Data frames are sequences of records.  A Province/State that pandas      *)
(* reads as NaN is the string NaN; a numeric cell that may be NaN is a set:  *)
(* {} for NaN, {v} for the number v.  mortality_rate is an exact fraction    *)
(* [num, den] in lowest terms.                                              *)
(***************************************************************************)
EXTENDS Integers, Sequences, FiniteSets, TLC

VARIABLES
    source,      \* what each URL of URLS serves: a response, per category
    raw,         \* the files <category>.csv of raw_data_path
    extractMeta, \* extraction_metadata.txt: the success count written, or -1
    datasets,    \* transform_data's local datasets, as step 1 last left it
    processed,   \* the three CSV files of processed_data_path
    store,       \* the PostgreSQL database: committed tables and audit rows
    txn,         \* what is pending, uncommitted, on load_data's own connection
    runlog,      \* pipeline_metadata.txt: the statuses appended so far
    mode,        \* which orchestration runs the stages: "main" or "dag"
    pc,          \* where the current run is
    ret,         \* what each stage function returned in the current run
    started,     \* the stages the current run has started, in order
    ld,          \* load_data's locals: position in files_to_load, rows_loaded
    runs,        \* how many runs have been started
    previous     \* what the run before left, when it succeeded throughout

vars == <<source, raw, extractMeta, datasets, processed, store, txn, runlog, mode, pc,
          ret, started, ld, runs, previous>>

(***************************************************************************)
(* Bounds of the model.                                                     *)
(***************************************************************************)
MaxRows == 2          \* rows of a wide table
MaxRuns == 2          \* pipeline runs in one behaviour

(***************************************************************************)
(* Values.                                                                  *)
(***************************************************************************)
NaN == "NaN"
Unknown == "Unknown"

\* URLS.keys(), in dict order (extract.py); transform.py iterates the same list
Categories == <<"confirmed", "deaths", "recovered">>

CategorySet == {Categories[i] : i \in 1..Len(Categories)}

\* The date column headers a file may carry; BadHeader is one that
\* pd.to_datetime(format='%m/%d/%y') rejects.
BadHeader == "2020-01-22"

ParseDate ==
    [h \in {"1/9/20", "1/10/20"} |->
        CASE h = "1/9/20"  -> 20200109
          [] h = "1/10/20" -> 20200110]

DateParses(h) == h \in DOMAIN ParseDate

\* The order pandas sorts strings in (sort_values, groupby): by code point.
\* NaN sorts last (na_position='last').
StrRank ==
    [s \in {"A", "B", "P", Unknown, NaN} |->
        CASE s = "A" -> 1
          [] s = "B" -> 2
          [] s = "P" -> 3
          [] s = Unknown -> 4
          [] s = NaN -> 5]

(***************************************************************************)
(* File contents.  A file or response body is a CSV table (header: the date *)
(* columns after the four id columns; rows), zero bytes, or bytes that      *)
(* pd.read_csv cannot parse.                                                *)
(***************************************************************************)
Absent == [kind |-> "absent", header |-> <<>>, rows |-> <<>>]
EmptyFile == [kind |-> "empty", header |-> <<>>, rows |-> <<>>]
Garbage == [kind |-> "garbage", header |-> <<>>, rows |-> <<>>]
NetworkError == [kind |-> "error", header |-> <<>>, rows |-> <<>>]

Csv(header, rows) == [kind |-> "csv", header |-> header, rows |-> rows]

WideRow(ps, cr, cells) ==
    [ps |-> ps, cr |-> cr, lat |-> 0, long |-> 0, cells |-> cells]

(***************************************************************************)
(* Sequence helpers.                                                        *)
(***************************************************************************)
Range(s) == {s[i] : i \in 1..Len(s)}

RECURSIVE SumSeq(_)
SumSeq(s) == IF s = <<>> THEN 0 ELSE s[1] + SumSeq(Tail(s))

RECURSIVE Flatten(_)
Flatten(ss) == IF ss = <<>> THEN <<>> ELSE ss[1] \o Flatten(Tail(ss))

RECURSIVE SelectIdx(_, _, _)
\* the indices i of 1..n, ascending, with keep[i]
SelectIdx(n, keep, i) ==
    IF i > n THEN <<>>
    ELSE (IF keep[i] THEN <<i>> ELSE <<>>) \o SelectIdx(n, keep, i + 1)

RECURSIVE Gcd(_, _)
Gcd(a, b) == IF b = 0 THEN a ELSE Gcd(b, a % b)

Abs(x) == IF x < 0 THEN -x ELSE x

\* the fraction n/d, d > 0, in lowest terms
Frac(n, d) ==
    LET g == Gcd(Abs(n), d)
    IN  [num |-> n \div g, den |-> d \div g]

Zero == [num |-> 0, den |-> 1]

(***************************************************************************)
(* Sorting, as sort_values and groupby do it: by a tuple of integers, ties  *)
(* kept in their original order.                                            *)
(***************************************************************************)
RECURSIVE TupleLess(_, _)
TupleLess(a, b) ==
    IF a = <<>> \/ b = <<>> THEN FALSE
    ELSE IF a[1] # b[1] THEN a[1] < b[1]
    ELSE TupleLess(Tail(a), Tail(b))

RECURSIVE InsertIdx(_, _, _)
\* index i put into the sorted index list, after every index whose key is
\* not greater
InsertIdx(sorted, i, key) ==
    IF sorted = <<>> THEN <<i>>
    ELSE IF TupleLess(key[i], key[sorted[1]]) THEN <<i>> \o sorted
    ELSE <<sorted[1]>> \o InsertIdx(Tail(sorted), i, key)

RECURSIVE SortPerm(_, _)
SortPerm(key, n) ==
    IF n = 0 THEN <<>> ELSE InsertIdx(SortPerm(key, n - 1), n, key)

\* df sorted by key[i], the key of row i
SortValues(df, key) ==
    LET perm == SortPerm(key, Len(df))
    IN  [k \in 1..Len(df) |-> df[perm[k]]]

(***************************************************************************)
(* transform_data, step 1: read and reshape one dataset.                    *)
(***************************************************************************)
\* Melt with the last date column left out of the value columns
MeltSkippingColumn(df, category) ==
    Flatten([j \in 1..(Len(df.header) - 1) |->
        [i \in 1..Len(df.rows) |->
            [ps |-> df.rows[i].ps, cr |-> df.rows[i].cr,
             lat |-> df.rows[i].lat, long |-> df.rows[i].long,
             date |-> df.header[j], metric |-> category,
             value |-> df.rows[i].cells[j]]]])

\* pd.melt(df, id_vars, var_name='date', value_name=category): one row per
\* (date column, original row), the date columns outermost
Melt(df, category) ==
    Flatten([j \in 1..Len(df.header) |->
        [i \in 1..Len(df.rows) |->
            [ps |-> df.rows[i].ps, cr |-> df.rows[i].cr,
             lat |-> df.rows[i].lat, long |-> df.rows[i].long,
             date |-> df.header[j], metric |-> category,
             value |-> df.rows[i].cells[j]]]])

\* pd.to_datetime(df_long['date'], format='%m/%d/%y') raises on a header
\* of another format
ToDatetimeRaises(long) == \E i \in 1..Len(long) : ~DateParses(long[i].date)

ToDatetime(long) ==
    [i \in 1..Len(long) |-> [long[i] EXCEPT !.date = ParseDate[long[i].date]]]

\* pd.read_csv raises on a file of zero bytes or of unparseable bytes
ReadCsvRaises(file) == file.kind # "csv"

(***************************************************************************)
(* transform_data, step 2: merge.                                           *)
(***************************************************************************)
SameJoinKey(l, r) == l.ps = r.ps /\ l.cr = r.cr /\ l.date = r.date

\* pd.merge(left, right[[keys, value]], on=keys, how='left'): every left
\* row, in order, once per matching right row, or once with NaN
Merge(left, right) ==
    Flatten([i \in 1..Len(left) |->
        LET m == SelectIdx(Len(right),
                           [k \in 1..Len(right) |-> SameJoinKey(left[i], right[k])],
                           1)
        IN  IF m = <<>> THEN << [row |-> left[i], val |-> {}] >>
            ELSE [k \in 1..Len(m) |-> [row |-> left[i], val |-> {right[m[k]].value}]]])

\* transformed_data[category] = 0
ZeroColumn(left) == [i \in 1..Len(left) |-> [row |-> left[i], val |-> {0}]]

MergeOrZero(left, dsets, category) ==
    IF dsets[category].present THEN Merge(left, dsets[category].rows)
    ELSE ZeroColumn(left)

\* fillna for one cell
Fillna(cell, default) == IF cell = {} THEN default ELSE CHOOSE v \in cell : TRUE

\* FillnaStr with 'Province/State' left out of the fillna mapping
FillnaStrLeftOut(s, default) == s

FillnaStr(s, default) == IF s = NaN THEN default ELSE s

\* Active clamped at 0
ActiveClamped(confirmed, deaths, recovered) ==
    IF confirmed - deaths - recovered < 0 THEN 0
    ELSE confirmed - deaths - recovered

Active(confirmed, deaths, recovered) == confirmed - deaths - recovered

\* MortalityRate as a fraction of 1, not a percentage
MortalityRateFraction(confirmed, deaths) ==
    IF confirmed > 0 THEN Frac(deaths, confirmed) ELSE Zero

\* np.where(confirmed > 0, (deaths / confirmed) * 100, 0)
MortalityRate(confirmed, deaths) ==
    IF confirmed > 0 THEN Frac(deaths * 100, confirmed) ELSE Zero

\* lines 76-114: the merged, filled frame with its calculated fields
Reconcile(dsets) ==
    LET base == dsets["confirmed"].rows
        withDeaths ==
            LET m == MergeOrZero(base, dsets, "deaths")
            IN  [i \in 1..Len(m) |->
                    [ps |-> m[i].row.ps, cr |-> m[i].row.cr,
                     lat |-> m[i].row.lat, long |-> m[i].row.long,
                     date |-> m[i].row.date, confirmed |-> m[i].row.value,
                     deaths |-> m[i].val]]
        withRecovered == MergeOrZero(withDeaths, dsets, "recovered")
    IN  [i \in 1..Len(withRecovered) |->
            LET r == withRecovered[i].row
                deaths == Fillna(r.deaths, 0)
                recovered == Fillna(withRecovered[i].val, 0)
            IN  [ps |-> FillnaStr(r.ps, Unknown), cr |-> r.cr,
                 lat |-> r.lat, long |-> r.long, date |-> r.date,
                 confirmed |-> r.confirmed, deaths |-> deaths,
                 recovered |-> recovered,
                 active |-> Active(r.confirmed, deaths, recovered),
                 mortality_rate |-> MortalityRate(r.confirmed, deaths)]]

(***************************************************************************)
(* transform_data, step 5: country-level aggregation.                       *)
(***************************************************************************)
\* the rows of one group, in frame order
GroupRows(df, cr, date) ==
    LET idx == SelectIdx(Len(df),
                         [i \in 1..Len(df) |-> df[i].cr = cr /\ df[i].date = date], 1)
    IN  [k \in 1..Len(idx) |-> df[idx[k]]]

\* AggSum as agg 'first'
AggFirst(rows, col) == rows[1][col]

\* agg 'sum' of one column over the rows of a group
AggSum(rows, col) == SumSeq([i \in 1..Len(rows) |-> rows[i][col]])

RECURSIVE SetToSeq(_)
SetToSeq(S) ==
    IF S = {} THEN <<>>
    ELSE LET x == CHOOSE x \in S : TRUE IN <<x>> \o SetToSeq(S \ {x})

\* groupby(['Country/Region', 'date']).agg(sum).reset_index(), then the
\* country-level mortality rate: one row per group, the groups sorted
CountryData(df) ==
    LET groups == SetToSeq({<<df[i].cr, df[i].date>> : i \in 1..Len(df)})
        sorted == SortValues(groups,
                    [k \in 1..Len(groups) |-> <<StrRank[groups[k][1]], groups[k][2]>>])
    IN  [k \in 1..Len(sorted) |->
            LET g == GroupRows(df, sorted[k][1], sorted[k][2])
                confirmed == AggSum(g, "confirmed")
                deaths == AggSum(g, "deaths")
            IN  [cr |-> sorted[k][1], date |-> sorted[k][2],
                 confirmed |-> confirmed, deaths |-> deaths,
                 recovered |-> AggSum(g, "recovered"),
                 active |-> AggSum(g, "active"),
                 mortality_rate |-> MortalityRate(confirmed, deaths)]]

(***************************************************************************)
(* transform_data, step 6: daily changes.                                   *)
(***************************************************************************)
\* sort_values(['Country/Region', 'Province/State', 'date'])
SortForDiff(df) ==
    SortValues(df, [i \in 1..Len(df) |->
                       <<StrRank[df[i].cr], StrRank[df[i].ps], df[i].date>>])

\* GroupDiff without the groupby: df[col].diff()
GroupDiffUngrouped(df, col) ==
    [i \in 1..Len(df) |->
        IF i = 1 THEN {} ELSE {df[i][col] - df[i - 1][col]}]

\* groupby(['Country/Region', 'Province/State'])[col].diff(): the row's
\* value less that of the previous row of its own group, NaN for the
\* group's first row
GroupDiff(df, col) ==
    [i \in 1..Len(df) |->
        LET before == {j \in 1..(i - 1) : df[j].cr = df[i].cr /\ df[j].ps = df[i].ps}
        IN  IF before = {} THEN {}
            ELSE LET j == CHOOSE j \in before : \A k \in before : k <= j
                 IN  {df[i][col] - df[j][col]}]

\* .clip(lower=0)
ClipLower(x) == IF x < 0 THEN 0 ELSE x

\* .diff().fillna(0), then .clip(lower=0), for one column
NewColumn(df, col) ==
    LET d == GroupDiff(df, col)
    IN  [i \in 1..Len(df) |-> ClipLower(Fillna(d[i], 0))]

DailyData(df) ==
    LET sorted == SortForDiff(df)
        nc == NewColumn(sorted, "confirmed")
        nd == NewColumn(sorted, "deaths")
        nr == NewColumn(sorted, "recovered")
    IN  [i \in 1..Len(sorted) |->
            [ps |-> sorted[i].ps, cr |-> sorted[i].cr,
             lat |-> sorted[i].lat, long |-> sorted[i].long,
             date |-> sorted[i].date, confirmed |-> sorted[i].confirmed,
             deaths |-> sorted[i].deaths, recovered |-> sorted[i].recovered,
             active |-> sorted[i].active,
             mortality_rate |-> sorted[i].mortality_rate,
             new_confirmed |-> nc[i], new_deaths |-> nd[i],
             new_recovered |-> nr[i]]]

(***************************************************************************)
(* The state of a run.                                                      *)
(***************************************************************************)
\* processed_data_path: the files transform_data writes and load_data reads
FullFile == "covid_data_transformed.csv"
CountryFile == "covid_data_by_country.csv"
DailyFile == "covid_daily_changes.csv"

ProcessedFiles == {FullFile, CountryFile, DailyFile}

NoFile == [exists |-> FALSE, rows |-> <<>>]

File(rows) == [exists |-> TRUE, rows |-> rows]

\* what a stage function returned: "-" while it has not returned
\* what a run that succeeded throughout was given and what it left: the
\* answers of the URLs, the processed files, the row count of each table
NoSnapshot == [succeeded |-> FALSE]

Snapshot ==
    IF ret.transform = "True" /\ ret.load = "True"
    THEN [succeeded |-> TRUE, source |-> source, processed |-> processed,
          count |-> [t \in DOMAIN store.tables |-> Len(store.tables[t].rows)]]
    ELSE NoSnapshot

NoReturns ==
    [extract |-> "-", transform |-> "-", load |-> "-", run |-> "-"]

NoLocals == [tries |-> 0, rows_loaded |-> 0]

\* what the orchestration does with a stage's return value r.
\* run_pipeline: "if not <stage>_success: return False".  The DAG's
\* PythonOperator ends in success whatever the callable returns; only an
\* exception fails the task.
Truthy(r) == r = "True"

StageSucceeded(m, r) == IF m = "main" THEN Truthy(r) ELSE r # "raised"

(***************************************************************************)
(* extract_data.                                                            *)
(***************************************************************************)
\* lines 54-58: requests.get raises on a network error, before the file is
\* opened; any other body is written as it came
RawAfterDownload(old, response) ==
    IF response.kind = "error" THEN old ELSE response

\* lines 61-68: the file is counted when it is not empty and pd.read_csv
\* reads it
Counted(response) == response.kind = "csv"

\* the count of a loop that ends at the first category that fails
SuccessfulDownloadsUntilFailure(src) ==
    LET failed == {i \in 1..Len(Categories) : ~Counted(src[Categories[i]])}
    IN  IF failed = {} THEN Len(Categories)
        ELSE (CHOOSE i \in failed : \A j \in failed : i <= j) - 1

SuccessfulDownloads(src) ==
    SumSeq([i \in 1..Len(Categories) |->
              IF Counted(src[Categories[i]]) THEN 1 ELSE 0])

\* the function ends after writing the metadata, without a return statement
ExtractReturn(successful_downloads) == "None"

ExtractData ==
    /\ pc = "extract"
    /\ raw' = [c \in CategorySet |-> RawAfterDownload(raw[c], source[c])]
    /\ extractMeta' = SuccessfulDownloads(source)
    /\ started' = Append(started, "extract")
    /\ LET r == ExtractReturn(SuccessfulDownloads(source))
       IN  /\ ret' = [ret EXCEPT !.extract = r,
                                 !.run = IF StageSucceeded(mode, r) THEN @
                                         ELSE "Failed"]
           /\ pc' = IF StageSucceeded(mode, r) THEN "transform" ELSE "done"
    /\ UNCHANGED <<source, datasets, processed, store, txn, runlog, mode, ld,
                   runs, previous>>

(***************************************************************************)
(* transform_data.                                                          *)
(***************************************************************************)
\* step 1 raises when a file that exists cannot be read or one of its date
\* headers does not parse
ReshapeRaises(files) ==
    \E c \in CategorySet :
        /\ files[c].kind # "absent"
        /\ \/ ReadCsvRaises(files[c])
           \/ ToDatetimeRaises(Melt(files[c], c))

NoDatasets == [c \in CategorySet |-> [present |-> FALSE, rows |-> <<>>]]

\* datasets: the reshaped frame of every category whose file exists
Datasets(files) ==
    [c \in CategorySet |->
        IF files[c].kind = "absent" THEN [present |-> FALSE, rows |-> <<>>]
        ELSE [present |-> TRUE, rows |-> ToDatetime(Melt(files[c], c))]]

TransformFails(files) ==
    ReshapeRaises(files) \/ ~Datasets(files)["confirmed"].present

\* the three files of a run that succeeds
TransformOutput(files) ==
    LET transformed_data == Reconcile(Datasets(files))
    IN  [f \in ProcessedFiles |->
            CASE f = FullFile -> File(transformed_data)
              [] f = CountryFile -> File(CountryData(transformed_data))
              [] f = DailyFile -> File(DailyData(transformed_data))]

\* the to_csv call that raises (disk full, directory not writable), if any
ToCsvFailPoints == {"none", CountryFile, DailyFile}

\* the files whose to_csv (lines 118, 138, 154) has returned when the one of
\* fp raises
WrittenBefore(fp) ==
    CASE fp = "none" -> ProcessedFiles
      [] fp = CountryFile -> {FullFile}
      [] fp = DailyFile -> {FullFile, CountryFile}

\* files opened for appending: the rows are added to those of the file
WriteProcessedAppending(old, new, fp) ==
    [f \in ProcessedFiles |->
        IF f \in WrittenBefore(fp) THEN File(old[f].rows \o new[f].rows)
        ELSE old[f]]

\* steps 4 to 6: each file is written in place as soon as it is computed
WriteProcessed(old, new, fp) ==
    [f \in ProcessedFiles |-> IF f \in WrittenBefore(fp) THEN new[f] ELSE old[f]]

TransformReturn(files, fp) ==
    IF TransformFails(files) \/ fp # "none" THEN "False" ELSE "True"

TransformData ==
    /\ pc = "transform"
    /\ started' = Append(started, "transform")
    /\ datasets' = IF ReshapeRaises(raw) THEN datasets ELSE Datasets(raw)
    /\ \E fp \in ToCsvFailPoints :
        /\ processed' = IF TransformFails(raw) THEN processed
                        ELSE WriteProcessed(processed, TransformOutput(raw), fp)
        /\ LET r == TransformReturn(raw, fp)
           IN  /\ ret' = [ret EXCEPT !.transform = r,
                                     !.run = IF StageSucceeded(mode, r) THEN @
                                             ELSE "Failed"]
               /\ pc' = IF StageSucceeded(mode, r) THEN "load" ELSE "done"
    /\ UNCHANGED <<source, raw, extractMeta, store, txn, runlog, mode, ld, runs,
                   previous>>

(***************************************************************************)
(* The database.  A statement run through the hook (pg_hook.run,            *)
(* pg_hook.get_records, pg_hook.get_first) or through the SQLAlchemy engine  *)
(* (df.to_sql) uses a connection of its own and is committed when it         *)
(* returns; only create_database_schema runs on load_data's connection conn, *)
(* which is committed at the end of load_data or rolled back.               *)
(***************************************************************************)
\* files_to_load, in dict order
FilesToLoad == <<FullFile, CountryFile, DailyFile>>

TableOf ==
    [f \in ProcessedFiles |->
        CASE f = FullFile -> "full_data"
          [] f = CountryFile -> "country_summary"
          [] f = DailyFile -> "daily_changes"]

DataTables == {"full_data", "country_summary", "daily_changes"}
MetadataTable == "etl_metadata"

\* the views of create_analytical_views, with the table each selects from
ViewSource ==
    [v \in {"vw_latest_global_summary", "vw_top_countries", "vw_global_daily"} |->
        IF v = "vw_global_daily" THEN "daily_changes" ELSE "country_summary"]

Views == DOMAIN ViewSource

\* which call of load_data wrote something: <<run, attempt>>
NoTag == <<0, 0>>

NoTable == [exists |-> FALSE, rows |-> <<>>, by |-> NoTag]

Table(rows, tag) == [exists |-> TRUE, rows |-> rows, by |-> tag]

\* a database without any table, and databases set up beforehand
FreshStore ==
    [tables |-> [t \in DataTables |-> NoTable],
     meta |-> [exists |-> FALSE, rows |-> <<>>],
     views |-> {}]

ProvisionedStore ==
    [tables |-> [t \in DataTables |-> Table(<<>>, NoTag)],
     meta |-> [exists |-> TRUE, rows |-> <<>>],
     views |-> {}]

StoreWithoutMetadata ==
    [ProvisionedStore EXCEPT !.meta = [exists |-> FALSE, rows |-> <<>>]]

\* the tables the other connections see
Visible(st) ==
    {t \in DataTables : st.tables[t].exists}
        \cup (IF st.meta.exists THEN {MetadataTable} ELSE {})

\* create_database_schema: CREATE TABLE IF NOT EXISTS for the four tables,
\* on conn, uncommitted: the tables that this creates
SchemaCreates(st) == (DataTables \cup {MetadataTable}) \ Visible(st)

\* DROP TABLE IF EXISTS t CASCADE: the table and the views over it
DropTable(st, t) ==
    [st EXCEPT !.tables[t] = NoTable,
               !.views = {v \in @ : ViewSource[v] # t}]

\* df.to_sql(t, engine, if_exists='replace', index=False)
ToSql(st, t, rows, tag) == [st EXCEPT !.tables[t] = Table(rows, tag)]

\* the sub-steps at which the database may fail a call of load_data
FailPoints ==
    {"none", "connect", "schema", "drop", "to_sql", "views", "indexes",
     "audit", "commit"}

\* a loop that loads the first file and leaves the other two
LoadFilesFirstOnly(st, files, pending, fp, k, tag, i, rows_loaded) ==
    LET f == FilesToLoad[1]
        t == TableOf[f]
    IN  IF files[f].exists /\ t \notin pending
        THEN [store |-> ToSql(DropTable(st, t), t, files[f].rows, tag),
              status |-> "ok", rows_loaded |-> Len(files[f].rows)]
        ELSE [store |-> st, status |-> "ok", rows_loaded |-> 0]

RECURSIVE LoadFiles(_, _, _, _, _, _, _, _)
\* lines 63-103, from file i on: [store, status, rows_loaded].  CREATE TABLE
\* of a name that conn's open transaction has created waits for that
\* transaction to end.
LoadFiles(st, files, pending, fp, k, tag, i, rows_loaded) ==
    IF i > Len(FilesToLoad)
    THEN [store |-> st, status |-> "ok", rows_loaded |-> rows_loaded]
    ELSE LET f == FilesToLoad[i]
             t == TableOf[f]
         IN  IF ~files[f].exists
             THEN LoadFiles(st, files, pending, fp, k, tag, i + 1, rows_loaded)
             ELSE IF fp = "drop" /\ k = i
             THEN [store |-> st, status |-> "raised", rows_loaded |-> rows_loaded]
             ELSE IF t \in pending
             THEN [store |-> DropTable(st, t), status |-> "blocked",
                   rows_loaded |-> rows_loaded]
             ELSE IF fp = "to_sql" /\ k = i
             THEN [store |-> DropTable(st, t), status |-> "raised",
                   rows_loaded |-> rows_loaded]
             ELSE LoadFiles(ToSql(DropTable(st, t), t, files[f].rows, tag),
                            files, pending, fp, k, tag, i + 1,
                            rows_loaded + Len(files[f].rows))

\* create_analytical_views: the views need the tables they select from
ViewsRaise(st, fp) ==
    fp = "views" \/ ~({"country_summary", "daily_changes"} \subseteq Visible(st))

\* create_indexes: the indexes need their tables
IndexesRaise(st, fp) == fp = "indexes" \/ ~(DataTables \subseteq Visible(st))

\* lines 113-125
AuditInsert(st, rows_loaded, tag) ==
    [st EXCEPT !.meta.rows =
        Append(@, [operation |-> "load", details |-> rows_loaded, by |-> tag])]

\* conn.commit(): the tables create_database_schema created now exist
Commit(st, pending) ==
    [tables |-> [t \in DataTables |->
                    IF t \in pending THEN Table(<<>>, NoTag) ELSE st.tables[t]],
     meta |-> IF MetadataTable \in pending
              THEN [exists |-> TRUE, rows |-> <<>>] ELSE st.meta,
     views |-> st.views]

\* the config a stage gets: the DAG passes its CONFIG; run_pipeline passes
\* none, and the CONFIG of scripts/__init__.py has no 'postgres_conn_id'
ConfigHasConnId(m) == m = "dag"

\* one call of load_data, failing at fp (for "drop" and "to_sql": at file
\* k): [store, status, rows_loaded, pending]
LoadOutcome(st, files, m, fp, k, tag) ==
    LET pending == SchemaCreates(st)
        loaded == LoadFiles(st, files, pending, fp, k, tag, 1, 0)
        out(store_, status, n, open) ==
            [store |-> store_, status |-> status, rows_loaded |-> n,
             pending |-> open]
    IN  IF ~ConfigHasConnId(m) \/ fp \in {"connect", "schema"}
        THEN out(st, "raised", 0, {})
        ELSE IF loaded.status = "blocked"
        THEN out(loaded.store, "blocked", loaded.rows_loaded, pending)
        ELSE IF loaded.status = "raised"
        THEN out(loaded.store, "raised", loaded.rows_loaded, {})
        ELSE IF ViewsRaise(loaded.store, fp)
        THEN out(loaded.store, "raised", loaded.rows_loaded, {})
        ELSE LET viewed == [loaded.store EXCEPT !.views = Views]
             IN  IF IndexesRaise(viewed, fp)
                 THEN out(viewed, "raised", loaded.rows_loaded, {})
                 ELSE IF MetadataTable \in Visible(viewed) /\ fp = "audit"
                 THEN out(viewed, "raised", loaded.rows_loaded, {})
                 ELSE LET audited ==
                              IF MetadataTable \in Visible(viewed)
                              THEN AuditInsert(viewed, loaded.rows_loaded, tag)
                              ELSE viewed
                      IN  IF fp = "commit"
                          THEN out(audited, "raised", loaded.rows_loaded, {})
                          ELSE out(Commit(audited, pending), "True",
                                   loaded.rows_loaded, {})

\* default_args['retries'] of the DAG: a task that raised is run again
Retries == 1

\* what follows a call of load_data that returned or raised r
AfterLoad(m, r, tries) ==
    IF r = "blocked" THEN "blocked"
    ELSE IF m = "dag" /\ r = "raised" /\ tries <= Retries THEN "load"
    ELSE "done"

RunStatus(m, r, tries) ==
    IF r = "True" THEN "Succeeded"
    ELSE IF AfterLoad(m, r, tries) = "done" THEN "Failed"
    ELSE "-"

\* run_pipeline appends a line to pipeline_metadata.txt after load_data
\* returned true (line 75) or raised (line 84); a line is told from the
\* lines of other runs by its timestamp, here the run's number
RunlogAfterLoad(log, m, r, run) ==
    IF m # "main" \/ r = "blocked" THEN log
    ELSE Append(log, [run |-> run,
                      status |-> IF r = "True" THEN "Success" ELSE "Failed"])

LoadData ==
    /\ pc = "load"
    /\ \E fp \in FailPoints, k \in 1..Len(FilesToLoad) :
        \* the file index matters to the failures inside the loop only
        /\ fp \in {"drop", "to_sql"} \/ k = 1
        /\ LET tries == ld.tries + 1
               o == LoadOutcome(store, processed, mode, fp, k, <<runs, tries>>)
           IN  /\ store' = o.store
               /\ txn' = o.pending
               /\ ld' = [tries |-> tries, rows_loaded |-> o.rows_loaded]
               /\ started' = Append(started, "load")
               /\ ret' = [ret EXCEPT !.load = o.status,
                                     !.run = RunStatus(mode, o.status, tries)]
               /\ pc' = AfterLoad(mode, o.status, tries)
               /\ runlog' = RunlogAfterLoad(runlog, mode, o.status, runs)
    /\ UNCHANGED <<source, raw, extractMeta, datasets, processed, mode, runs,
                   previous>>

(***************************************************************************)
(* The transform stage on its own: one DAG run over every input of the      *)
(* bounded input space, up to the end of transform_covid_data.              *)
(***************************************************************************)
Countries == {"A", "B"}
DateHeaders == <<"1/9/20", "1/10/20">>

\* (Province/State, Country/Region) of the rows a file may hold
ConfirmedKeys == {<<NaN, "A">>, <<"P", "A">>, <<NaN, "B">>}
DeathsKeys == {<<"P", "A">>}
RecoveredKeys == {<<NaN, "A">>}

\* cumulative counts of one region over DateHeaders: falling to 0, and
\* rising from a negative entry
ConfirmedSeries == {<<2, 0>>, <<-1, 1>>}
DeathsSeries == {<<0, 1>>, <<1, 0>>}
RecoveredSeries == {<<0, 1>>}

SeqsUpTo(S, n) == UNION {[1..k -> S] : k \in 0..n}

Prefix(s, n) == [i \in 1..n |-> s[i]]

\* the tables of at most n rows, with the first k date columns
Tables(keys, series, n, k) ==
    LET rows == {WideRow(key[1], key[2], Prefix(cells, k)) :
                    key \in keys, cells \in series}
    IN  {Csv(Prefix(DateHeaders, k), r) : r \in SeqsUpTo(rows, n)}

TransformInputs ==
    [confirmed : {NetworkError}
                 \cup Tables(ConfirmedKeys, ConfirmedSeries, MaxRows, 2)
                 \cup Tables(ConfirmedKeys, ConfirmedSeries, MaxRows, 1),
     deaths : {NetworkError}
              \cup Tables(DeathsKeys, DeathsSeries, MaxRows, 2),
     recovered : {NetworkError}
                 \cup Tables(RecoveredKeys, RecoveredSeries, MaxRows, 2)]

InitTransform ==
    /\ source \in TransformInputs
    /\ raw = [c \in CategorySet |-> Absent]
    /\ extractMeta = -1
    /\ datasets = NoDatasets
    /\ processed = [f \in ProcessedFiles |-> NoFile]
    /\ store = FreshStore
    /\ txn = {}
    /\ runlog = <<>>
    /\ mode = "dag"
    /\ pc = "extract"
    /\ ret = NoReturns
    /\ started = <<>>
    /\ ld = NoLocals
    /\ runs = 1
    /\ previous = NoSnapshot

NextTransform == ExtractData \/ TransformData

SpecTransform == InitTransform /\ [][NextTransform]_vars

(***************************************************************************)
(* The extract stage on its own: one call of extract_data for every         *)
(* combination of answers of the three URLs, over a raw directory that may  *)
(* hold files of an earlier run.                                            *)
(***************************************************************************)
OldFile == Csv(<<"1/9/20">>, <<WideRow(NaN, "A", <<1>>)>>)

\* what one URL may answer
ExtractResponses ==
    {NetworkError, EmptyFile, Garbage,
     Csv(DateHeaders, <<WideRow(NaN, "A", <<2, 0>>)>>),
     Csv(<<"1/9/20", BadHeader>>, <<WideRow(NaN, "A", <<2, 0>>)>>)}

InitExtract ==
    /\ source \in [CategorySet -> ExtractResponses]
    /\ raw \in [CategorySet -> {Absent, OldFile}]
    /\ extractMeta = -1
    /\ datasets = NoDatasets
    /\ processed = [f \in ProcessedFiles |-> NoFile]
    /\ store = FreshStore
    /\ txn = {}
    /\ runlog = <<>>
    /\ mode \in {"main", "dag"}
    /\ pc = "extract"
    /\ ret = NoReturns
    /\ started = <<>>
    /\ ld = NoLocals
    /\ runs = 1
    /\ previous = NoSnapshot

NextExtract == ExtractData

SpecExtract == InitExtract /\ [][NextExtract]_vars

(***************************************************************************)
(* The pipeline: runs of run_pipeline (main.py) and of the DAG, one after   *)
(* the other, over a database and directories that outlive each run.        *)
(***************************************************************************)
\* what the three URLs may serve during a run
GoodConfirmed == Csv(DateHeaders, <<WideRow(NaN, "A", <<2, 0>>)>>)
OtherConfirmed ==
    Csv(DateHeaders, <<WideRow("P", "A", <<-1, 1>>), WideRow(NaN, "B", <<2, 0>>)>>)
BadHeaderConfirmed ==
    Csv(<<"1/9/20", BadHeader>>, <<WideRow(NaN, "A", <<2, 0>>)>>)
GoodDeaths == Csv(DateHeaders, <<WideRow(NaN, "A", <<0, 1>>)>>)
GoodRecovered == Csv(DateHeaders, <<WideRow(NaN, "A", <<0, 1>>)>>)

Responses(confirmed, deaths, recovered) ==
    [confirmed |-> confirmed, deaths |-> deaths, recovered |-> recovered]

PipelineSources ==
    {Responses(GoodConfirmed, GoodDeaths, GoodRecovered),
     Responses(OtherConfirmed, GoodDeaths, GoodRecovered),
     Responses(GoodConfirmed, NetworkError, GoodRecovered),
     Responses(GoodConfirmed, Garbage, GoodRecovered),
     Responses(GoodConfirmed, GoodDeaths, EmptyFile),
     Responses(NetworkError, GoodDeaths, GoodRecovered),
     Responses(BadHeaderConfirmed, GoodDeaths, GoodRecovered),
     Responses(NetworkError, NetworkError, NetworkError)}

InitialStores == {FreshStore, ProvisionedStore, StoreWithoutMetadata}

Init ==
    /\ source \in PipelineSources
    /\ raw = [c \in CategorySet |-> Absent]
    /\ extractMeta = -1
    /\ datasets = NoDatasets
    /\ processed = [f \in ProcessedFiles |-> NoFile]
    /\ store \in InitialStores
    /\ txn = {}
    /\ runlog = <<>>
    /\ mode \in {"main", "dag"}
    /\ pc = "extract"
    /\ ret = NoReturns
    /\ started = <<>>
    /\ ld = NoLocals
    /\ runs = 1
    /\ previous = NoSnapshot

\* the next run starts when the run before it has ended
StartRun ==
    /\ pc = "done"
    /\ runs < MaxRuns
    /\ runs' = runs + 1
    /\ source' \in PipelineSources
    /\ mode' \in {"main", "dag"}
    /\ pc' = "extract"
    /\ ret' = NoReturns
    /\ started' = <<>>
    /\ ld' = NoLocals
    /\ datasets' = NoDatasets
    /\ previous' = Snapshot
    /\ UNCHANGED <<raw, extractMeta, processed, store, txn, runlog>>

Next == StartRun \/ ExtractData \/ TransformData \/ LoadData

Spec == Init /\ [][Next]_vars

(***************************************************************************)
(* The scheduled DAG on its own: DAG runs one after the other, the URLs     *)
(* serving one of two data sets or nothing.                                 *)
(***************************************************************************)
DagSources ==
    {Responses(GoodConfirmed, GoodDeaths, GoodRecovered),
     Responses(OtherConfirmed, GoodDeaths, GoodRecovered),
     Responses(NetworkError, NetworkError, NetworkError)}

InitDag ==
    /\ source \in DagSources
    /\ raw = [c \in CategorySet |-> Absent]
    /\ extractMeta = -1
    /\ datasets = NoDatasets
    /\ processed = [f \in ProcessedFiles |-> NoFile]
    /\ store \in InitialStores
    /\ txn = {}
    /\ runlog = <<>>
    /\ mode = "dag"
    /\ pc = "extract"
    /\ ret = NoReturns
    /\ started = <<>>
    /\ ld = NoLocals
    /\ runs = 1
    /\ previous = NoSnapshot

\* the scheduler starts the next DAG run when the run before it has ended
StartDagRun ==
    /\ pc = "done"
    /\ mode = "dag"
    /\ runs < MaxRuns
    /\ runs' = runs + 1
    /\ source' \in DagSources
    /\ pc' = "extract"
    /\ ret' = NoReturns
    /\ started' = <<>>
    /\ ld' = NoLocals
    /\ datasets' = NoDatasets
    /\ previous' = Snapshot
    /\ UNCHANGED <<raw, extractMeta, processed, store, txn, runlog, mode>>

NextDag == StartDagRun \/ ExtractData \/ TransformData \/ LoadData

SpecDag == InitDag /\ [][NextDag]_vars

(***************************************************************************)
(* What the claims about transform_data speak of.                           *)
(***************************************************************************)
Full == processed[FullFile].rows
Country == processed[CountryFile].rows
Daily == processed[DailyFile].rows

TransformDone == ret.transform = "True"

RECURSIVE Total(_, _)
\* the sum of f[i] over the finite set S
Total(f, S) ==
    IF S = {} THEN 0
    ELSE LET i == CHOOSE i \in S : TRUE IN f[i] + Total(f, S \ {i})

Occurrences(seq, x) == Cardinality({i \in 1..Len(seq) : seq[i] = x})

\* the same rows, each as often, in any order
SameBag(a, b) ==
    /\ Len(a) = Len(b)
    /\ \A x \in Range(a) \cup Range(b) : Occurrences(a, x) = Occurrences(b, x)

Max0(x) == IF x > 0 THEN x ELSE 0

\* the rows before row i that belong to row i's (Country/Region,
\* Province/State) series
SeriesBefore(df, i) ==
    {j \in 1..(i - 1) : df[j].cr = df[i].cr /\ df[j].ps = df[i].ps}

Last(S) == CHOOSE j \in S : \A k \in S : k <= j

WithoutNew(d) ==
    [ps |-> d.ps, cr |-> d.cr, lat |-> d.lat, long |-> d.long,
     date |-> d.date, confirmed |-> d.confirmed, deaths |-> d.deaths,
     recovered |-> d.recovered, active |-> d.active,
     mortality_rate |-> d.mortality_rate]

\* C1: in the daily-changes output every (Country/Region, Province/State)
\* series is in date order, the first row of a series has new_m = 0, every
\* later row has new_m = max(0, m - m of the previous row of the same
\* series), for m in confirmed, deaths, recovered; no new_m is negative; and
\* the rows are the reconciled rows.
C1_DailyChanges ==
    TransformDone =>
        /\ SameBag([i \in 1..Len(Daily) |-> WithoutNew(Daily[i])], Full)
        /\ \A i \in 1..Len(Daily) :
            LET before == SeriesBefore(Daily, i)
                d == Daily[i]
            IN  /\ \A j \in before : Daily[j].date <= d.date
                /\ d.new_confirmed >= 0 /\ d.new_deaths >= 0 /\ d.new_recovered >= 0
                /\ IF before = {}
                   THEN d.new_confirmed = 0 /\ d.new_deaths = 0 /\ d.new_recovered = 0
                   ELSE LET p == Daily[Last(before)]
                        IN  /\ d.new_confirmed = Max0(d.confirmed - p.confirmed)
                            /\ d.new_deaths = Max0(d.deaths - p.deaths)
                            /\ d.new_recovered = Max0(d.recovered - p.recovered)

\* two interleaved series, one with a rise and one with a fall that is
\* clipped to 0
C1_Witness ==
    /\ TransformDone
    /\ \E i, j \in 1..Len(Daily) :
        /\ Daily[i].cr # Daily[j].cr \/ Daily[i].ps # Daily[j].ps
        /\ Daily[i].new_confirmed > 0
        /\ SeriesBefore(Daily, j) # {}
        /\ Daily[j].confirmed < Daily[Last(SeriesBefore(Daily, j))].confirmed
        /\ Daily[j].new_confirmed = 0
        /\ \E k \in 1..Len(Daily) : Daily[k].new_deaths > 0

\* the Province/State a row's key has in the reconciled output
KeyProvince(ps) == IF ps = NaN THEN Unknown ELSE ps

\* the confirmed rows of a join key, Province/State as filled
ConfirmedWithKey(ps, cr, date) ==
    LET c == datasets["confirmed"].rows
    IN  {k \in 1..Len(c) :
            KeyProvince(c[k].ps) = ps /\ c[k].cr = cr /\ c[k].date = date}

FullWithKey(ps, cr, date) ==
    {i \in 1..Len(Full) :
        Full[i].ps = ps /\ Full[i].cr = cr /\ Full[i].date = date}

Dates == {ParseDate[h] : h \in DOMAIN ParseDate}

\* C2: the reconciled output holds every (Country/Region, Province/State)
\* key of the confirmed table once per date for each confirmed row of that
\* key and date, and no other key: rows of deaths or recovered that share a
\* join key never multiply the confirmed rows.
C2_JoinInvariant ==
    TransformDone =>
        \A ps \in {Unknown, "P"}, cr \in Countries, date \in Dates :
            Cardinality(FullWithKey(ps, cr, date))
                = Cardinality(ConfirmedWithKey(ps, cr, date))

\* rate = deaths / confirmed * 100
RateIs(rate, deaths, confirmed) ==
    rate.den > 0 /\ rate.num * confirmed = deaths * 100 * rate.den

CountryGroup(c) ==
    {i \in 1..Len(Full) : Full[i].cr = c.cr /\ Full[i].date = c.date}

SumOf(col, S) == Total([i \in 1..Len(Full) |-> Full[i][col]], S)

\* C3 as stated: mortality_rate is 0 when confirmed is 0 and
\* deaths/confirmed*100 for every other confirmed, in every reconciled row
\* and, from the summed deaths and confirmed, in every country-summary row.
C3_RateForEveryNonZeroConfirmed ==
    TransformDone =>
        /\ \A i \in 1..Len(Full) :
            IF Full[i].confirmed = 0 THEN Full[i].mortality_rate.num = 0
            ELSE RateIs(Full[i].mortality_rate, Full[i].deaths, Full[i].confirmed)
        /\ \A k \in 1..Len(Country) :
            LET sc == SumOf("confirmed", CountryGroup(Country[k]))
                sd == SumOf("deaths", CountryGroup(Country[k]))
            IN  IF sc = 0 THEN Country[k].mortality_rate.num = 0
                ELSE RateIs(Country[k].mortality_rate, sd, sc)

\* C3 as amended: mortality_rate is 0 when confirmed <= 0 and
\* deaths/confirmed*100 when confirmed > 0, in every reconciled row and, from
\* the summed deaths and confirmed, in every country-summary row.
C3_MortalityRate ==
    TransformDone =>
        /\ \A i \in 1..Len(Full) :
            IF Full[i].confirmed <= 0 THEN Full[i].mortality_rate.num = 0
            ELSE RateIs(Full[i].mortality_rate, Full[i].deaths, Full[i].confirmed)
        /\ \A k \in 1..Len(Country) :
            LET sc == SumOf("confirmed", CountryGroup(Country[k]))
                sd == SumOf("deaths", CountryGroup(Country[k]))
            IN  IF sc <= 0 THEN Country[k].mortality_rate.num = 0
                ELSE RateIs(Country[k].mortality_rate, sd, sc)

\* a row with confirmed = 0, a row with a negative confirmed and deaths, a
\* row with a rate that is not 0, and a country row over two rows whose
\* rate is not 0
C3_Witness ==
    /\ TransformDone
    /\ \E i \in 1..Len(Full) : Full[i].confirmed = 0
    /\ \E i \in 1..Len(Full) : Full[i].confirmed < 0 /\ Full[i].deaths # 0
    /\ \E i \in 1..Len(Full) : Full[i].mortality_rate.num # 0
    /\ \E k \in 1..Len(Country) :
        /\ Cardinality(CountryGroup(Country[k])) >= 2
        /\ Country[k].mortality_rate.num # 0

\* the rows of a category's reshaped frame that a reconciled row joins
Matches(category, r) ==
    LET d == datasets[category].rows
    IN  {k \in 1..Len(d) :
            KeyProvince(d[k].ps) = r.ps /\ d[k].cr = r.cr /\ d[k].date = r.date}

\* C4: in every reconciled row active = confirmed - deaths - recovered, the
\* deaths and recovered being 0 where the row has none, and a negative
\* value is kept.
C4_Active ==
    TransformDone =>
        \A i \in 1..Len(Full) :
            LET r == Full[i]
                d == IF Matches("deaths", r) = {} THEN 0 ELSE r.deaths
                v == IF Matches("recovered", r) = {} THEN 0 ELSE r.recovered
            IN  r.active = r.confirmed - d - v

\* a row with a negative active, and a row whose deaths were filled
C4_Witness ==
    /\ TransformDone
    /\ \E i \in 1..Len(Full) : Full[i].active < 0
    /\ \E i \in 1..Len(Full) :
        /\ datasets["deaths"].present
        /\ Matches("deaths", Full[i]) = {}
        /\ Full[i].recovered > 0

\* C5: the country summary has exactly one row for every (Country/Region,
\* date) of the reconciled output and no other row, and the row's confirmed,
\* deaths, recovered and active are the sums over all reconciled rows of
\* that country and date.
C5_CountrySums ==
    TransformDone =>
        /\ \A i \in 1..Len(Full) :
            Cardinality({k \in 1..Len(Country) :
                Country[k].cr = Full[i].cr /\ Country[k].date = Full[i].date}) = 1
        /\ \A k \in 1..Len(Country) :
            LET g == CountryGroup(Country[k])
            IN  /\ g # {}
                /\ Country[k].confirmed = SumOf("confirmed", g)
                /\ Country[k].deaths = SumOf("deaths", g)
                /\ Country[k].recovered = SumOf("recovered", g)
                /\ Country[k].active = SumOf("active", g)

\* a country with two sub-regions, on two dates
C5_Witness ==
    /\ TransformDone
    /\ \E k, l \in 1..Len(Country) :
        /\ Country[k].date # Country[l].date
        /\ \E i, j \in CountryGroup(Country[k]) :
            /\ Full[i].ps # Full[j].ps
            /\ Full[i].confirmed # 0 /\ Full[j].confirmed # 0

\* the long row that row i and date column j of a wide table give
LongRow(file, category, i, j) ==
    [ps |-> file.rows[i].ps, cr |-> file.rows[i].cr,
     lat |-> file.rows[i].lat, long |-> file.rows[i].long,
     date |-> ParseDate[file.header[j]], metric |-> category,
     value |-> file.rows[i].cells[j]]

\* C6: the reshape of a category's wide table of M rows and N date columns
\* has exactly N*M rows, one per (original row, date column), each with that
\* cell's value under the category's field.
C6_Reshape ==
    \A c \in CategorySet :
        datasets[c].present =>
            LET M == Len(raw[c].rows)
                N == Len(raw[c].header)
                long == datasets[c].rows
            IN  /\ Len(long) = N * M
                /\ \A i \in 1..M, j \in 1..N :
                    Occurrences(long, LongRow(raw[c], c, i, j))
                        = Cardinality({<<a, b>> \in (1..M) \X (1..N) :
                            LongRow(raw[c], c, a, b) = LongRow(raw[c], c, i, j)})

\* two tables of different shapes, one of 2 rows and 2 date columns
C6_Witness ==
    /\ datasets["confirmed"].present /\ datasets["deaths"].present
    /\ Len(raw["confirmed"].rows) = 2 /\ Len(raw["confirmed"].header) = 1
    /\ Len(raw["deaths"].rows) = 2 /\ Len(raw["deaths"].header) = 2
    /\ raw["deaths"].rows[1] # raw["deaths"].rows[2]

\* C7: in every reconciled row deaths, recovered and Province/State are not
\* null: a metric is 0 in every row when its dataset is absent and in each
\* row with no matching row of that category, and a missing Province/State
\* is 'Unknown'.
C7_NoNulls ==
    TransformDone =>
        /\ \A i \in 1..Len(Full) :
            LET r == Full[i]
            IN  /\ r.ps # NaN
                /\ r.deaths \in Int /\ r.recovered \in Int
                /\ ~datasets["deaths"].present => r.deaths = 0
                /\ ~datasets["recovered"].present => r.recovered = 0
                /\ Matches("deaths", r) = {} => r.deaths = 0
                /\ Matches("recovered", r) = {} => r.recovered = 0
        /\ \A k \in 1..Len(datasets["confirmed"].rows) :
            LET c == datasets["confirmed"].rows[k]
            IN  c.ps = NaN =>
                    \E i \in 1..Len(Full) :
                        /\ Full[i].ps = Unknown /\ Full[i].cr = c.cr
                        /\ Full[i].date = c.date /\ Full[i].confirmed = c.value

\* deaths absent, recovered present but without a row for one of the
\* confirmed rows, a confirmed row without Province/State
C7_Witness ==
    /\ TransformDone
    /\ ~datasets["deaths"].present
    /\ datasets["recovered"].present
    /\ \E i, j \in 1..Len(Full) :
        /\ Full[i].confirmed = 2 /\ Full[i].active = 2
        /\ Full[i].ps = Unknown
        /\ Matches("recovered", Full[j]) = {}
        /\ Full[i].date = Full[j].date
        /\ \E l \in 1..Len(Full) : Full[l].recovered > 0

(***************************************************************************)
(* What the claims about a run speak of.                                    *)
(***************************************************************************)
Started(stage) == stage \in Range(started)

Failure(r) == r \in {"False", "raised"}

\* C8: once extract_data, transform_data or load_data reports failure
\* (returns False or raises), no later stage of that run is started, and the
\* run ends Failed.
C8_StopOnFailure ==
    /\ Failure(ret.extract) => ~Started("transform") /\ ~Started("load")
    /\ Failure(ret.transform) => ~Started("load")
    /\ (pc = "done" /\ (Failure(ret.extract) \/ Failure(ret.transform)
                        \/ Failure(ret.load)))
            => ret.run = "Failed"

\* C9: extract_data returns true when its downloads were counted
\* successful; a run of run_pipeline whose extraction counted a download,
\* also when another category failed, starts the transform stage; and a run
\* whose three stages all returned true ends Succeeded.
C9_ExtractionReportsSuccess ==
    /\ (ret.extract # "-" /\ extractMeta = Len(Categories)) => ret.extract = "True"
    /\ (mode = "main" /\ pc = "done" /\ extractMeta >= 1) => Started("transform")
    /\ (pc = "done" /\ ret.extract = "True" /\ ret.transform = "True"
            /\ ret.load = "True") => ret.run = "Succeeded"

\* C10: after a call of load_data that raised, the store holds no table
\* loaded by that call and no 'load' audit row written by it, and nothing is
\* left pending on its connection.
C10_FailedLoadLeavesNothing ==
    ret.load = "raised" =>
        LET tag == <<runs, ld.tries>>
        IN  /\ \A t \in DataTables : store.tables[t].by # tag
            /\ \A i \in 1..Len(store.meta.rows) : store.meta.rows[i].by # tag
            /\ txn = {}

\* the lines of the run log written by the current run
RunLines == {i \in 1..Len(runlog) : runlog[i].run = runs}

\* C11: when a run of run_pipeline has ended, Succeeded or Failed, the run
\* log holds exactly one line of that run, and the line carries the run's
\* status.
C11_RunLogLine ==
    (mode = "main" /\ pc = "done") =>
        /\ Cardinality(RunLines) = 1
        /\ \A i \in RunLines :
            runlog[i].status = (IF ret.run = "Succeeded" THEN "Success"
                                ELSE "Failed")

\* C12: when the download of deaths or recovered failed in a run (network
\* error, empty file, unparseable content) and that of confirmed did not,
\* the run's transform_data succeeds and that metric is 0 in every
\* reconciled row.
C12_FailedDownloadIsAbsent ==
    \A c \in {"deaths", "recovered"} :
        (ret.transform # "-" /\ Counted(source["confirmed"])
                /\ ~Counted(source[c])) =>
            /\ ret.transform = "True"
            /\ \A i \in 1..Len(Full) : Full[i][c] = 0

\* C13: when transform_data has reported failure, none of the three
\* processed files has been written by it (here: the run started with no
\* processed file, and there is still none).
C13_TransformAllOrNothing ==
    ret.transform = "False" => \A f \in ProcessedFiles : processed[f] = NoFile

\* C14: after a call of extract_data every category whose URL answered has
\* its answer in the raw directory, whatever happened to the other
\* categories, and the success count of the extraction metadata is the
\* number of categories whose answer was a non-empty, parseable table.
C14_ExtractAttemptsAll ==
    ret.extract # "-" =>
        /\ \A c \in CategorySet : source[c].kind # "error" => raw[c] = source[c]
        /\ extractMeta = Cardinality({c \in CategorySet : source[c].kind = "csv"})

\* the first category fails on the network, the second is downloaded and
\* counted, the third is downloaded and does not parse
C14_Witness ==
    /\ ret.extract # "-"
    /\ source["confirmed"].kind = "error"
    /\ source["deaths"].kind = "csv" /\ raw["deaths"] = source["deaths"]
    /\ source["recovered"].kind = "garbage"
    /\ extractMeta = 1

(***************************************************************************)
(* What the claims about load_data speak of.                                *)
(***************************************************************************)
\* the call of load_data that has just ended
ThisLoad == <<runs, ld.tries>>

LoadSucceeded == ret.load = "True"

DestinationOf ==
    [f \in ProcessedFiles |->
        IF f = FullFile THEN "full_data"
        ELSE IF f = CountryFile THEN "country_summary" ELSE "daily_changes"]

\* C15: when a call of load_data has succeeded, each destination table
\* whose processed file exists holds exactly that file's rows, written by
\* this call, and a table whose file does not exist holds no row of any
\* call: nothing of an earlier call is left in a table.
C15_FullRefresh ==
    LoadSucceeded =>
        \A f \in ProcessedFiles :
            LET t == store.tables[DestinationOf[f]]
            IN  IF processed[f].exists
                THEN t.exists /\ t.rows = processed[f].rows /\ t.by = ThisLoad
                ELSE t.rows = <<>> /\ t.by = NoTag

\* the second run's load succeeds after a load of the first run that
\* loaded another number of rows
C15_Witness ==
    /\ LoadSucceeded
    /\ runs = 2
    /\ store.tables["full_data"].rows # <<>>
    /\ \E i \in 1..Len(store.meta.rows) :
        /\ store.meta.rows[i].by[1] = 1
        /\ store.meta.rows[i].details # ld.rows_loaded
        /\ store.meta.rows[i].details > 0

\* the rows the call that has just ended put into the destination tables
RowsLoadedByThisLoad ==
    Total([t \in DataTables |->
              IF store.tables[t].by = ThisLoad THEN Len(store.tables[t].rows)
              ELSE 0], DataTables)

\* C16: when a call of load_data has succeeded, on whatever store it
\* started, etl_metadata holds exactly one 'load' row written by that call,
\* and the row records the total number of rows the call loaded.
C16_AuditRow ==
    LoadSucceeded =>
        /\ store.meta.exists
        /\ Cardinality({i \in 1..Len(store.meta.rows) :
                            store.meta.rows[i].by = ThisLoad}) = 1
        /\ \A i \in 1..Len(store.meta.rows) :
            store.meta.rows[i].by = ThisLoad =>
                /\ store.meta.rows[i].operation = "load"
                /\ store.meta.rows[i].details = RowsLoadedByThisLoad

\* C17: when a run of the pipeline has succeeded throughout and the run
\* before it had too, on the same answers of the three URLs, the three
\* processed files are the same after the second run as after the first,
\* and so is the row count of each destination table.
C17_Idempotent ==
    (previous.succeeded /\ previous.source = source
            /\ ret.transform = "True" /\ LoadSucceeded) =>
        /\ processed = previous.processed
        /\ \A t \in DataTables : Len(store.tables[t].rows) = previous.count[t]

\* two runs in a row on the same data, both succeeded, rows in each table
C17_Witness ==
    /\ previous.succeeded /\ previous.source = source
    /\ ret.transform = "True" /\ LoadSucceeded
    /\ runs = 2
    /\ \A t \in DataTables : Len(store.tables[t].rows) >= 2
    /\ \A t \in DataTables : store.tables[t].by = ThisLoad

\* C18: no call of load_data is left waiting for the transaction that is
\* open on its own connection: every call returns or raises.
C18_LoadTerminates ==
    /\ ret.load # "blocked"
    /\ pc # "blocked"

====
